---- MODULE Spec2Model ----
(***************************************************************************)
(* Model of src/utils/process.rs: the command-line classifiers             *)
(* (guess_git_blame_filename_extension, describe_calling_process and the   *)
(* option-skipping primitive they share) and the three-tier search for the *)
(* calling process (calling_process_cmdline, find_sibling_process,         *)
(* iter_parents).                                                          *)
(*                                                                         *)
(* A string is a tuple of one-character strings, so that prefixes, splits  *)
(* and file stems are computed and not assumed.  Option<T> is <<>> for     *)
(* None and <<x>> for Some(x).                                             *)
(***************************************************************************)
EXTENDS Integers, Sequences, FiniteSets, TLC

VARIABLES
    argv,         \* classifier input: the argv handed to a classifier
    out,          \* classifier output: what the applied function returned
    os,           \* the operating system's process table: pid -> record
    info,         \* the ProcessInterface snapshot: pid -> record, filled by refreshes
    pc,           \* position inside calling_process_cmdline / iter_parents
    result,       \* Option<T> returned by calling_process_cmdline
    classified,   \* pids whose cmd() was handed to extract_args, in call order
    refresh_log,  \* pids handed to refresh_process, and "all" for refresh_processes
    walk,         \* the running inner_iter_parents call: pid, distance, closure state
    query,        \* the public query whose search is running: it picks extract_args
    memo,         \* CACHED_CALLING_PROCESS, and what each public query did and returned
    fake          \* FAKE_ARGS of the one thread, its guard, and the outcome of the last call

vars == <<argv, out, os, info, pc, result, classified, refresh_log, walk, query, memo, fake>>

----------------------------------------------------------------------------
(* Bounds of the model.                                                    *)

\* longest argv tail (tokens after the optional command token) drawn as input
MaxArgs == 4
\* process ids of the search model are 1..MaxPid; the current process is MaxPid
MaxPid == 4
\* process ids of the ancestry-walk model are 1..MaxIterPid
MaxIterPid == 2
\* tokens behind the subcommand of a describe_calling_process input
MaxTail == 3
\* calls of the public queries in one run
MaxCalls == 3
\* longest list handed to FakeParentArgs::with, and most get() calls under one guard
MaxWith == 3

----------------------------------------------------------------------------
(* Option<T>                                                               *)

None == <<>>
Some(x) == <<x>>

----------------------------------------------------------------------------
(* str primitives                                                          *)

UpperCase == <<"A","B","C","D","E","F","G","H","I","J","K","L","M",
               "N","O","P","Q","R","S","T","U","V","W","X","Y","Z">>
LowerCase == <<"a","b","c","d","e","f","g","h","i","j","k","l","m",
               "n","o","p","q","r","s","t","u","v","w","x","y","z">>

to_ascii_lowercase(c) ==
    IF \E i \in 1..26 : UpperCase[i] = c
    THEN LowerCase[CHOOSE i \in 1..26 : UpperCase[i] = c]
    ELSE c

eq_ignore_ascii_case(a, b) ==
    /\ Len(a) = Len(b)
    /\ \A i \in 1..Len(a) : to_ascii_lowercase(a[i]) = to_ascii_lowercase(b[i])

starts_with(s, p) ==
    /\ Len(s) >= Len(p)
    /\ SubSeq(s, 1, Len(p)) = p

Positions(s, c) == {i \in 1..Len(s) : s[i] = c}

Minimum(S) == CHOOSE x \in S : \A y \in S : x <= y
Maximum(S) == CHOOSE x \in S : \A y \in S : x >= y

\* str::split(c): the segments between the occurrences of c; never empty
RECURSIVE split(_, _)
split(s, c) ==
    IF Positions(s, c) = {}
    THEN <<s>>
    ELSE LET i == Minimum(Positions(s, c))
         IN  <<SubSeq(s, 1, i - 1)>> \o split(SubSeq(s, i + 1, Len(s)), c)

\* Iterator::last
last(xs) == IF Len(xs) = 0 THEN None ELSE Some(xs[Len(xs)])

\* str::split_once(c): Some(<<before, after>>) around the first c
split_once(s, c) ==
    IF Positions(s, c) = {}
    THEN None
    ELSE LET i == Minimum(Positions(s, c))
         IN  Some(<<SubSeq(s, 1, i - 1), SubSeq(s, i + 1, Len(s))>>)

\* Path::file_name on a unix path: the final normal component
file_name(path) ==
    LET comps == SelectSeq(split(path, "/"), LAMBDA c : c # <<>> /\ c # <<".">>)
    IN  IF Len(comps) = 0 THEN None
        ELSE IF comps[Len(comps)] = <<".", ".">> THEN None
        ELSE Some(comps[Len(comps)])

\* Path::file_stem: the file name up to its final '.', the whole name when
\* it has no '.' or its only '.' is the first character
file_stem(path) ==
    IF file_name(path) = None THEN None
    ELSE LET name == file_name(path)[1]
             dots == Positions(name, ".")
         IN  IF dots = {} \/ Maximum(dots) = 1
             THEN Some(name)
             ELSE Some(SubSeq(name, 1, Maximum(dots) - 1))

----------------------------------------------------------------------------
(* Tokens                                                                  *)

T_git      == <<"g","i","t">>
T_GitExe   == <<"/","b","/","G","i","t",".","e","x","e">>
T_git_a_b  == <<"g","i","t",".","a",".","b">>
T_sh       == <<"s","h">>
T_rg       == <<"R","G",".","e","x","e">>
T_ack      == <<"a","c","k">>
T_sift     == <<"s","i","f","t">>
T_blame    == <<"b","l","a","m","e">>
T_grep     == <<"g","r","e","p">>
T_show     == <<"s","h","o","w">>
T_dashdash == <<"-","-">>
T_date     == <<"-","-","d","a","t","e">>
T_date_eq  == <<"-","-","d","a","t","e","=","1",".","5">>
T_a_rs     == <<"a",".","r","s">>
T_README   == <<"R">>
T_empty    == <<>>

\* "-C -c -L --since --ignore-rev --ignore-revs-file --contents --reverse --date".split(' ')
git_blame_options_with_parameter ==
    { <<"-","C">>, <<"-","c">>, <<"-","L">>,
      <<"-","-","s","i","n","c","e">>,
      <<"-","-","i","g","n","o","r","e","-","r","e","v">>,
      <<"-","-","i","g","n","o","r","e","-","r","e","v","s","-","f","i","l","e">>,
      <<"-","-","c","o","n","t","e","n","t","s">>,
      <<"-","-","r","e","v","e","r","s","e">>,
      T_date }

\* "".split(' '): the one empty string
git_show_options_with_parameter == { <<>> }

----------------------------------------------------------------------------
(* ProcessArgs<T>                                                          *)

Args(x) == [tag |-> "Args", val |-> Some(x)]
ArgError == [tag |-> "ArgError", val |-> None]
OtherProcess == [tag |-> "OtherProcess", val |-> None]

(* CallingProcess                                                          *)
GitShow(extension) == [kind |-> "GitShow", ext |-> extension, longs |-> {}, shorts |-> {}]
GitGrep(keys) == [kind |-> "GitGrep", ext |-> <<>>, longs |-> keys[1], shorts |-> keys[2]]
OtherGrep == [kind |-> "OtherGrep", ext |-> <<>>, longs |-> {}, shorts |-> {}]

----------------------------------------------------------------------------
(* CommandLineClassifier                                                   *)

\* skip_from with `--` treated as one more dash token to drop
RECURSIVE skip_from_no_terminator(_, _, _)
skip_from_no_terminator(args, arg_follows_space, i) ==
    IF i > Len(args) THEN <<>>
    ELSE IF args[i] \in arg_follows_space
         THEN skip_from_no_terminator(args, arg_follows_space, i + 2)
    ELSE IF ~starts_with(args[i], <<"-">>)
         THEN <<i>> \o skip_from_no_terminator(args, arg_follows_space, i + 1)
    ELSE skip_from_no_terminator(args, arg_follows_space, i + 1)

\* skip_from that drops a parameter-consuming option but not its parameter
RECURSIVE skip_from_keeps_parameter(_, _, _)
skip_from_keeps_parameter(args, arg_follows_space, i) ==
    IF i > Len(args) THEN <<>>
    ELSE IF args[i] = T_dashdash THEN [k \in 1..(Len(args) - i) |-> i + k]
    ELSE IF args[i] \in arg_follows_space
         THEN skip_from_keeps_parameter(args, arg_follows_space, i + 1)
    ELSE IF ~starts_with(args[i], <<"-">>)
         THEN <<i>> \o skip_from_keeps_parameter(args, arg_follows_space, i + 1)
    ELSE skip_from_keeps_parameter(args, arg_follows_space, i + 1)

\* The loop of skip_uninteresting_args from position i on, as the positions
\* of args it keeps.
RECURSIVE skip_from(_, _, _)
skip_from(args, arg_follows_space, i) ==
    IF i > Len(args) THEN <<>>
    ELSE IF args[i] = T_dashdash THEN [k \in 1..(Len(args) - i) |-> i + k]
    ELSE IF args[i] \in arg_follows_space THEN skip_from(args, arg_follows_space, i + 2)
    ELSE IF ~starts_with(args[i], <<"-">>)
         THEN <<i>> \o skip_from(args, arg_follows_space, i + 1)
    ELSE skip_from(args, arg_follows_space, i + 1)

skip_uninteresting_args(args_it, skip_this_plus_parameter) ==
    LET kept == skip_from(args_it, skip_this_plus_parameter, 1)
    IN  [k \in 1..Len(kept) |-> args_it[kept[k]]]

is_git_binary(git) ==
    /\ file_stem(git) # None
    /\ eq_ignore_ascii_case(file_stem(git)[1], T_git)

\* guess_git_blame_filename_extension taking the first '.'-segment, not the last
guess_git_blame_first_segment(args) ==
    LET selected_args == skip_uninteresting_args(args, git_blame_options_with_parameter)
        n == Len(selected_args)
    IN  IF n >= 3 /\ selected_args[2] = T_blame /\ is_git_binary(selected_args[1])
        THEN Args(split(selected_args[n], ".")[1])
        ELSE IF n = 2 /\ selected_args[2] = T_blame /\ is_git_binary(selected_args[1])
        THEN ArgError
        ELSE OtherProcess

guess_git_blame_filename_extension(args) ==
    LET selected_args == skip_uninteresting_args(args, git_blame_options_with_parameter)
        n == Len(selected_args)
    IN  IF n >= 3 /\ selected_args[2] = T_blame /\ is_git_binary(selected_args[1])
        THEN LET ext == last(split(selected_args[n], "."))
             IN  IF ext # None THEN Args(ext[1]) ELSE ArgError
        ELSE IF n = 2 /\ selected_args[2] = T_blame /\ is_git_binary(selected_args[1])
        THEN ArgError
        ELSE OtherProcess

\* parse_command_option_keys without the break at `--`
parse_command_option_keys_no_break(args) ==
    LET seen == {args[i] : i \in 1..Len(args)}
        longs == {split(s, "=")[1] : s \in {t \in seen : starts_with(t, <<"-", "-">>)}}
        shorts == UNION {{<<"-", s[k]>> : k \in 2..Len(s)} :
                         s \in {t \in seen : starts_with(t, <<"-">>)
                                             /\ ~starts_with(t, <<"-", "-">>)}}
    IN  <<longs, shorts>>

parse_command_option_keys(args) ==
    LET stops == Positions(args, T_dashdash)
        upto == IF stops = {} THEN Len(args) ELSE Minimum(stops) - 1
        seen == {args[i] : i \in 1..upto}
        longs == {split(s, "=")[1] : s \in {t \in seen : starts_with(t, <<"-", "-">>)}}
        shorts == UNION {{<<"-", s[k]>> : k \in 2..Len(s)} :
                         s \in {t \in seen : starts_with(t, <<"-">>)
                                             /\ ~starts_with(t, <<"-", "-">>)}}
    IN  <<longs, shorts>>

\* get_git_show_file_extension giving up on a path without a '.'
get_git_show_file_extension_needs_dot(args) ==
    LET last_arg == last(skip_uninteresting_args(args, git_show_options_with_parameter))
    IN  IF last_arg = None THEN None
        ELSE IF split_once(last_arg[1], ":") = None THEN None
        ELSE IF Positions(split_once(last_arg[1], ":")[1][2], ".") = {} THEN None
        ELSE last(split(split_once(last_arg[1], ":")[1][2], "."))

get_git_show_file_extension(args) ==
    LET last_arg == last(skip_uninteresting_args(args, git_show_options_with_parameter))
    IN  IF last_arg = None THEN None
        ELSE IF split_once(last_arg[1], ":") = None THEN None
        ELSE last(split(split_once(last_arg[1], ":")[1][2], "."))

is_any_of(cmd, others) ==
    /\ cmd # None
    /\ \E o \in others : eq_ignore_ascii_case(o, cmd[1])

\* describe_calling_process stopping the search on an unknown command
describe_calling_process_unknown_is_error(args) ==
    IF Len(args) = 0 THEN OtherProcess
    ELSE LET s == file_stem(args[1])
         IN  IF s # None /\ is_git_binary(s[1]) THEN ArgError
             ELSE IF s # None /\ is_any_of(s, {<<"r","g">>, T_ack, T_sift})
             THEN Args(OtherGrep)
             ELSE ArgError

describe_calling_process(args) ==
    IF Len(args) = 0 THEN OtherProcess
    ELSE LET command == args[1]
             s == file_stem(command)
             subs == {j \in 2..Len(args) : args[j] = T_grep \/ args[j] = T_show}
         IN  IF s # None /\ is_git_binary(s[1])
             THEN IF subs = {} THEN ArgError
                  ELSE LET j == Minimum(subs)
                           rest == SubSeq(args, j + 1, Len(args))
                       IN  IF args[j] = T_grep
                           THEN Args(GitGrep(parse_command_option_keys(rest)))
                           ELSE IF get_git_show_file_extension(rest) # None
                                THEN Args(GitShow(get_git_show_file_extension(rest)[1]))
                                ELSE ArgError
             ELSE IF s # None /\ is_any_of(s, {<<"r","g">>, T_ack, T_sift})
             THEN Args(OtherGrep)
             ELSE OtherProcess

----------------------------------------------------------------------------
(* The classifiers applied to bounded inputs.                              *)

CommandTokens == {T_git, T_GitExe, T_git_a_b, T_sh, T_rg}
TailTokens == {T_blame, T_date, T_date_eq, T_dashdash, T_a_rs, T_README, T_empty}

BoundedSeq(S, n) == UNION {[1..k -> S] : k \in 0..n}

ArgvInputs(n) ==
    {h \o t : h \in {<<>>} \cup {<<c>> : c \in CommandTokens},
              t \in BoundedSeq(TailTokens, n)}

NoOut == [op |-> "none", skip |-> {}, idx |-> <<>>, selected |-> <<>>, res |-> OtherProcess]
NoWalk == [pid |-> 0, acc |-> <<0, 0>>, distance |-> 0]

\* the two public queries
Queries == {"calling_process", "git_blame_filename_extension"}

\* nothing cached, no query called
NoMemo ==
    [cached |-> <<>>,
     calls |-> [q \in Queries |-> 0],
     searches |-> [q \in Queries |-> 0],
     answers |-> [q \in Queries |-> {}]]

\* TlsState::None, no guard alive, nothing called
NoFake ==
    [state |-> [tag |-> "None", n |-> 0, args |-> <<>>],
     guard |-> <<>>,
     last |-> [op |-> "none", panic |-> FALSE, ret |-> <<>>, guard |-> <<>>],
     panicking |-> FALSE,
     aborted |-> FALSE]

\* the value of memo and of fake where nothing reads them
NotInUse == <<>>

\* a search for git_blame_filename_extension outside the public queries and
\* outside a test
NoHarness ==
    /\ query = "git_blame_filename_extension"
    /\ memo = NotInUse
    /\ fake = NotInUse

HarnessVars == <<query, memo, fake>>

InitArgs ==
    /\ argv \in ArgvInputs(MaxArgs)
    /\ out = NoOut
    /\ os = <<>>
    /\ info = <<>>
    /\ pc = "classify"
    /\ result = None
    /\ classified = <<>>
    /\ refresh_log = <<>>
    /\ walk = NoWalk
    /\ NoHarness

SearchUnchanged ==
    UNCHANGED <<os, info, pc, result, classified, refresh_log, walk, query, memo, fake>>

SkipUninterestingArgs ==
    /\ pc = "classify"
    /\ out.op = "none"
    /\ \E skip \in {git_blame_options_with_parameter, git_show_options_with_parameter} :
          out' = [op |-> "skip", skip |-> skip,
                  idx |-> skip_from(argv, skip, 1),
                  selected |-> skip_uninteresting_args(argv, skip),
                  res |-> OtherProcess]
    /\ UNCHANGED argv
    /\ SearchUnchanged

GuessGitBlameFilenameExtension ==
    /\ pc = "classify"
    /\ out.op = "none"
    /\ out' = [NoOut EXCEPT !.op = "guess",
                            !.res = guess_git_blame_filename_extension(argv)]
    /\ UNCHANGED argv
    /\ SearchUnchanged

DescribeCallingProcess ==
    /\ pc = "classify"
    /\ out.op = "none"
    /\ out' = [NoOut EXCEPT !.op = "describe",
                            !.res = describe_calling_process(argv)]
    /\ UNCHANGED argv
    /\ SearchUnchanged

NextArgs ==
    \/ SkipUninterestingArgs
    \/ GuessGitBlameFilenameExtension
    \/ DescribeCallingProcess

SpecArgs == InitArgs /\ [][NextArgs]_vars

----------------------------------------------------------------------------
(* describe_calling_process applied to bounded inputs with a subcommand.   *)

T_ab           == <<"-","a","b">>
T_dash         == <<"-">>
T_rev_file     == <<"H",":","a",".","b",".","R">>
T_rev_Makefile == <<"H",":","M">>
T_rev_colons   == <<"H",":","a",".","b",":","c">>

DescribeCommandTokens == {T_git, T_GitExe, T_sh}
SubcommandTokens == {T_grep, T_show, T_blame}
DescribeTailTokens ==
    {T_ab, T_dash, T_date, T_date_eq, T_dashdash, T_a_rs, T_empty,
     T_rev_file, T_rev_Makefile, T_rev_colons, T_grep}

\* <command> [--date] <subcommand> <tokens>
DescribeInputs(n) ==
    {<<c>> \o before \o <<sub>> \o t :
        c \in DescribeCommandTokens,
        before \in {<<>>, <<T_date>>},
        sub \in SubcommandTokens,
        t \in BoundedSeq(DescribeTailTokens, n)}

InitDescribe ==
    /\ argv \in DescribeInputs(MaxTail)
    /\ out = NoOut
    /\ os = <<>>
    /\ info = <<>>
    /\ pc = "classify"
    /\ result = None
    /\ classified = <<>>
    /\ refresh_log = <<>>
    /\ walk = NoWalk
    /\ NoHarness

NextDescribe ==
    \/ DescribeCallingProcess
    \/ GuessGitBlameFilenameExtension

SpecDescribe == InitDescribe /\ [][NextDescribe]_vars

----------------------------------------------------------------------------
(* ProcessSnapshot: the process table and the snapshot taken of it         *)

Pids == 1..MaxPid

\* ProcessInterface::my_pid: the current process
my_pid == MaxPid

\* start_time of the current process, one start_time inside the window of
\* line 293 and one outside it
ThisStartTime == 100
NearStartTime == 98
FarStartTime == 103

Digits == <<"0","1","2","3","4","5","6","7","8","9">>

\* `git blame f.<pid>`: classified Args(<pid>), a different result per process
BlameCmd(p) == <<T_git, T_blame, <<"f", ".", Digits[p + 1]>>>>
\* `git blame`: classified ArgError
BrokenBlameCmd == <<T_git, T_blame>>
\* `sh`: classified OtherProcess
ShellCmd == <<T_sh>>

ExtOf(p) == <<Digits[p + 1]>>

\* A parent has a smaller pid than its child, as pids are handed out in
\* increasing order, and is one of the two pids below it; the link of pid 1
\* may be stale and name the pid below the current one, which is how a table
\* that is not a tree arises.
ParentChoices(p) ==
    {None} \cup {Some(q) : q \in {p - 1, p - 2} \cap Pids}
           \cup (IF p = 1 THEN {Some(my_pid - 1)} ELSE {})

\* pid 2 may have started outside the window, the others start inside it
StartTimeChoices(p) ==
    IF p = my_pid THEN {ThisStartTime}
    ELSE IF p = 2 THEN {NearStartTime, FarStartTime}
    ELSE {NearStartTime}

CmdChoices(p) ==
    IF p = my_pid THEN {BlameCmd(p), ShellCmd}
    ELSE {BlameCmd(p), BrokenBlameCmd, ShellCmd}

FakeProc(p) ==
    [parent : ParentChoices(p), start_time : StartTimeChoices(p), cmd : CmdChoices(p)]

Insert(map, key, value) ==
    [k \in DOMAIN map \cup {key} |-> IF k = key THEN value ELSE map[k]]

\* every table over the pids 1..n, each pid absent or with one of its records
RECURSIVE TablesUpTo(_)
TablesUpTo(n) ==
    IF n = 0 THEN {<<>>}
    ELSE LET smaller == TablesUpTo(n - 1)
         IN  smaller \cup {Insert(t, n, r) : t \in smaller, r \in FakeProc(n)}

Tables == TablesUpTo(MaxPid)

\* ProcessInterface::refresh_process: reads one record of the process table
\* into the snapshot; false when the process is not there
refresh_process_ok(table, pid) == pid \in DOMAIN table

refresh_process(snapshot, table, pid) ==
    IF pid \in DOMAIN table THEN Insert(snapshot, pid, table[pid]) ELSE snapshot

\* ProcessInterface::process
process(snapshot, pid) == IF pid \in DOMAIN snapshot THEN Some(snapshot[pid]) ELSE None

----------------------------------------------------------------------------
(* AncestrySearch                                                          *)

\* the depth at which inner_iter_parents gives up
MaxDistance == 2000

\* usize::MAX, as the largest number the checker can hold; chain lengths
\* stay below 2 * MaxDistance + 1
usize_MAX == 2147483647

\* iter_has_parent giving up one level late
iter_has_parent_one_more(snapshot, pid, distance) ==
    /\ distance <= MaxDistance + 1
    /\ process(snapshot, pid) # None
    /\ snapshot[pid].parent # None

\* inner_iter_parents calls f and recurses: within the depth limit, pid has a
\* record and the record names a parent
iter_has_parent(snapshot, pid, distance) ==
    /\ distance <= MaxDistance
    /\ process(snapshot, pid) # None
    /\ snapshot[pid].parent # None

\* the closure collect_parent_pids: pid_distances.insert(pid, distance)
collect_parent_pids(pid_distances, pid, distance) == Insert(pid_distances, pid, distance)

\* sum_distance counting the candidate's hops only
sum_distance_own_hops(pid_distances, length_of_process_chain, pid, distance) ==
    IF length_of_process_chain = usize_MAX /\ pid \in DOMAIN pid_distances
    THEN distance
    ELSE length_of_process_chain

\* the closure sum_distance over its captured length_of_process_chain
sum_distance(pid_distances, length_of_process_chain, pid, distance) ==
    IF length_of_process_chain = usize_MAX /\ pid \in DOMAIN pid_distances
    THEN pid_distances[pid] + distance
    ELSE length_of_process_chain

\* a closure that records its calls, as the one of test_process_calling_cmdline:
\* how many calls were made, and the distance handed to the last one
record_call(calls, pid, distance) == <<calls[1] + 1, distance>>

\* f(pid, distance) for the closures iter_parents is called with; acc is the
\* state the closure captures by reference
call_f(f, env, acc, pid, distance) ==
    IF f = "collect_parent_pids" THEN collect_parent_pids(acc, pid, distance)
    ELSE IF f = "sum_distance" THEN sum_distance(env, acc, pid, distance)
    ELSE record_call(acc, pid, distance)

\* one level of inner_iter_parents that calls f: f(parent, distance), then
\* on to (parent, distance + 1)
inner_iter_parents(snapshot, f, env, at) ==
    [pid |-> snapshot[at.pid].parent[1],
     acc |-> call_f(f, env, at.acc, snapshot[at.pid].parent[1], at.distance),
     distance |-> at.distance + 1]

\* The recursion of inner_iter_parents is evaluated in nested stretches of
\* StretchLength levels, three deep, which keeps the evaluation shallow:
\* StretchLength^3 levels are more than MaxDistance.
StretchLength == 13

RECURSIVE run_iter_parents(_, _, _, _, _, _)
run_iter_parents(snapshot, f, env, at, nesting, fuel) ==
    IF fuel = 0 \/ ~iter_has_parent(snapshot, at.pid, at.distance)
    THEN at
    ELSE LET next == IF nesting = 0
                     THEN inner_iter_parents(snapshot, f, env, at)
                     ELSE run_iter_parents(snapshot, f, env, at, nesting - 1, StretchLength)
         IN  run_iter_parents(snapshot, f, env, next, nesting, fuel - 1)

\* iter_parents(info, starting_pid, f): the closure's state after the walk
iter_parents(snapshot, starting_pid, f, env, acc) ==
    run_iter_parents(snapshot, f, env,
                     [pid |-> starting_pid, acc |-> acc, distance |-> 1],
                     2, StretchLength).acc

abs(x) == IF x < 0 THEN -x ELSE x

process_start_time_difference_less_than_3s(a, b) == abs(a - b) < 3

\* the classifier handed to calling_process_cmdline: describe_calling_process
\* by determine_calling_process, guess_git_blame_filename_extension by
\* git_blame_filename_extension
extract_args(cmd) ==
    IF query = "calling_process"
    THEN describe_calling_process(cmd)
    ELSE guess_git_blame_filename_extension(cmd)

\* the orders in which a HashMap over the keys may be iterated
RECURSIVE IterationOrders(_)
IterationOrders(keys) ==
    IF keys = {} THEN {<<>>}
    ELSE UNION {{<<k>> \o rest : rest \in IterationOrders(keys \ {k})} : k \in keys}

\* Iterator::min_by_key over pairs <<key, value>>: the first of the least
min_by_key(pairs) ==
    IF Len(pairs) = 0 THEN None
    ELSE LET least == Minimum({pairs[i][1] : i \in 1..Len(pairs)})
             first == Minimum({i \in 1..Len(pairs) : pairs[i][1] = least})
         IN  Some(pairs[first])

\* the pids find_sibling_process hands to extract_args: inside the window
in_start_time_window(snapshot, pid) ==
    {p \in DOMAIN snapshot :
        process_start_time_difference_less_than_3s(snapshot[pid].start_time,
                                                   snapshot[p].start_time)}

\* length_of_process_chain of the filter_map closure for a matched process
length_of_process_chain(snapshot, pid_distances, p) ==
    iter_parents(snapshot, p, "sum_distance", pid_distances, usize_MAX)

\* closest_candidates dropping the matched processes without a shared ancestor
closest_candidates_related_only(snapshot, pid) ==
    LET pid_distances == iter_parents(snapshot, pid, "collect_parent_pids", <<>>, <<>>)
        matched == {p \in in_start_time_window(snapshot, pid) :
                       /\ extract_args(snapshot[p].cmd).tag = "Args"
                       /\ length_of_process_chain(snapshot, pid_distances, p) # usize_MAX}
    IN  [p \in matched |->
            <<length_of_process_chain(snapshot, pid_distances, p),
              extract_args(snapshot[p].cmd).val[1]>>]

\* what filter and filter_map of find_sibling_process let through, per pid:
\* <<length_of_process_chain, args>> of every matched process in the window
closest_candidates(snapshot, pid) ==
    LET pid_distances == iter_parents(snapshot, pid, "collect_parent_pids", <<>>, <<>>)
        matched == {p \in in_start_time_window(snapshot, pid) :
                       extract_args(snapshot[p].cmd).tag = "Args"}
    IN  [p \in matched |->
            <<length_of_process_chain(snapshot, pid_distances, p),
              extract_args(snapshot[p].cmd).val[1]>>]

\* min_by_key and map over the candidates, the table iterated in `order`
cmdline_of_closest_matching_process(candidates, order) ==
    LET pairs == [i \in 1..Len(order) |-> candidates[order[i]]]
    IN  IF min_by_key(pairs) = None THEN None
        ELSE Some(min_by_key(pairs)[1][2])

\* find_sibling_process on the refreshed snapshot: the results it can return,
\* one per iteration order of the table
find_sibling_process(snapshot, pid) ==
    IF process(snapshot, pid) = None THEN {None}
    ELSE LET candidates == closest_candidates(snapshot, pid)
         IN  {cmdline_of_closest_matching_process(candidates, order) :
                 order \in IterationOrders(DOMAIN candidates)}

\* pids in increasing order
RECURSIVE Ascending(_)
Ascending(S) ==
    IF S = {} THEN <<>> ELSE <<Minimum(S)>> \o Ascending(S \ {Minimum(S)})

----------------------------------------------------------------------------
(* calling_process_cmdline, tier by tier                                   *)

Init ==
    /\ os \in Tables
    /\ info = <<>>
    /\ pc = "parent"
    /\ result = None
    /\ classified = <<>>
    /\ refresh_log = <<>>
    /\ argv = <<>>
    /\ out = NoOut
    /\ walk = NoWalk
    /\ NoHarness

ClassifierUnchanged == UNCHANGED <<argv, out, walk, query, memo, fake>>

\* the match on the parent's ProcessArgs with a match that does not return
after_parent_ignores_match(extracted) ==
    IF extracted.tag = "ArgError"
    THEN [result |-> None, pc |-> "done"]
    ELSE [result |-> None, pc |-> "sibling"]

\* the match on the parent's ProcessArgs with an ArgError that falls through
after_parent_error_falls_through(extracted) ==
    IF extracted.tag = "Args"
    THEN [result |-> Some(extracted.val[1]), pc |-> "done"]
    ELSE [result |-> None, pc |-> "sibling"]

\* the match on the parent's ProcessArgs: what is returned, or on to tier 2
after_parent(extracted) ==
    IF extracted.tag = "Args"
    THEN [result |-> Some(extracted.val[1]), pc |-> "done"]
    ELSE IF extracted.tag = "ArgError"
    THEN [result |-> None, pc |-> "done"]
    ELSE [result |-> None, pc |-> "sibling"]

\* the sibling tier never returning its match
after_sibling_ignores_match(sibling) ==
    [result |-> None, pc |-> "tree"]

\* the sibling tier ending the search on an ArgError, as the parent tier does
after_sibling_error_is_final(sibling) ==
    IF sibling # None /\ extract_args(sibling[1].cmd).tag = "Args"
    THEN [result |-> Some(extract_args(sibling[1].cmd).val[1]), pc |-> "done"]
    ELSE IF sibling # None /\ extract_args(sibling[1].cmd).tag = "ArgError"
    THEN [result |-> None, pc |-> "done"]
    ELSE [result |-> None, pc |-> "tree"]

\* the sibling tier: its match is returned, anything else goes on to tier 3
after_sibling(sibling) ==
    IF sibling # None /\ extract_args(sibling[1].cmd).tag = "Args"
    THEN [result |-> Some(extract_args(sibling[1].cmd).val[1]), pc |-> "done"]
    ELSE [result |-> None, pc |-> "tree"]

\* parent_process(my_pid)? fails: calling_process_cmdline returns None
ParentMissing ==
    /\ pc = "parent"
    /\ \/ /\ ~refresh_process_ok(os, my_pid)
          /\ refresh_log' = Append(refresh_log, my_pid)
          /\ info' = info
       \/ /\ refresh_process_ok(os, my_pid)
          /\ os[my_pid].parent = None
          /\ refresh_log' = Append(refresh_log, my_pid)
          /\ info' = refresh_process(info, os, my_pid)
       \/ /\ refresh_process_ok(os, my_pid)
          /\ os[my_pid].parent # None
          /\ ~refresh_process_ok(os, os[my_pid].parent[1])
          /\ refresh_log' = refresh_log \o <<my_pid, os[my_pid].parent[1]>>
          /\ info' = refresh_process(info, os, my_pid)
    /\ result' = None
    /\ pc' = "done"
    /\ UNCHANGED <<os, classified>>
    /\ ClassifierUnchanged

\* 1) the parent process is there and is classified
ParentTier ==
    /\ pc = "parent"
    /\ refresh_process_ok(os, my_pid)
    /\ os[my_pid].parent # None
    /\ refresh_process_ok(os, os[my_pid].parent[1])
    /\ LET parent_pid == os[my_pid].parent[1]
           snapshot == refresh_process(refresh_process(info, os, my_pid), os, parent_pid)
           extracted == extract_args(process(snapshot, parent_pid)[1].cmd)
       IN  /\ info' = snapshot
           /\ refresh_log' = refresh_log \o <<my_pid, parent_pid>>
           /\ classified' = Append(classified, parent_pid)
           /\ result' = after_parent(extracted).result
           /\ pc' = after_parent(extracted).pc
    /\ UNCHANGED os
    /\ ClassifierUnchanged

\* 2) the process with pid my_pid - 1
SiblingTier ==
    /\ pc = "sibling"
    /\ LET sibling_pid == my_pid - 1
           snapshot == refresh_process(info, os, sibling_pid)
           sibling == IF refresh_process_ok(os, sibling_pid)
                      THEN process(snapshot, sibling_pid) ELSE None
       IN  /\ info' = snapshot
           /\ refresh_log' = Append(refresh_log, sibling_pid)
           /\ classified' = IF sibling # None THEN Append(classified, sibling_pid)
                            ELSE classified
           /\ result' = after_sibling(sibling).result
           /\ pc' = after_sibling(sibling).pc
    /\ UNCHANGED os
    /\ ClassifierUnchanged

\* 3) find_sibling_process over the whole refreshed table
WholeTreeTier ==
    /\ pc = "tree"
    /\ info' = os
    /\ refresh_log' = Append(refresh_log, 0)
    /\ classified' = classified \o
           (IF process(os, my_pid) = None THEN <<>>
            ELSE Ascending(in_start_time_window(os, my_pid)))
    /\ result' \in find_sibling_process(os, my_pid)
    /\ pc' = "done"
    /\ UNCHANGED os
    /\ ClassifierUnchanged

Next ==
    \/ ParentMissing
    \/ ParentTier
    \/ SiblingTier
    \/ WholeTreeTier

Spec == Init /\ [][Next]_vars

----------------------------------------------------------------------------
(* iter_parents, level by level, over any table of parent links            *)

IterPids == 1..MaxIterPid

\* every table over the pids 1..n: each pid absent, without a parent, or
\* with any pid of the table as its parent, itself included
RECURSIVE IterTablesUpTo(_)
IterTablesUpTo(n) ==
    IF n = 0 THEN {<<>>}
    ELSE LET smaller == IterTablesUpTo(n - 1)
         IN  smaller \cup
             {Insert(t, n, [parent |-> parent, start_time |-> ThisStartTime, cmd |-> ShellCmd]) :
                 t \in smaller, parent \in {None} \cup {Some(q) : q \in IterPids}}

\* the table is refreshed (the prerequisite of iter_parents) and
\* inner_iter_parents(info, starting_pid, f, 1) is entered
InitIter ==
    /\ os \in IterTablesUpTo(MaxIterPid)
    /\ info = os
    /\ \E starting_pid \in IterPids :
          walk = [pid |-> starting_pid, acc |-> <<0, 0>>, distance |-> 1]
    /\ pc = "iter"
    /\ result = None
    /\ classified = <<>>
    /\ refresh_log = <<>>
    /\ argv = <<>>
    /\ out = NoOut
    /\ NoHarness

\* one level of inner_iter_parents that calls f and recurses
IterCall ==
    /\ pc = "iter"
    /\ iter_has_parent(info, walk.pid, walk.distance)
    /\ walk' = inner_iter_parents(info, "record_call", <<>>, walk)
    /\ UNCHANGED <<argv, out, os, info, pc, result, classified, refresh_log>>
    /\ UNCHANGED HarnessVars

\* the level of inner_iter_parents that returns
IterReturn ==
    /\ pc = "iter"
    /\ ~iter_has_parent(info, walk.pid, walk.distance)
    /\ pc' = "iter_done"
    /\ UNCHANGED <<argv, out, os, info, result, classified, refresh_log, walk>>
    /\ UNCHANGED HarnessVars

NextIter ==
    \/ IterCall
    \/ IterReturn

\* a called function runs on: no level of the recursion waits for anything
SpecIter == InitIter /\ [][NextIter]_vars /\ WF_vars(NextIter)

----------------------------------------------------------------------------
(* The public queries calling_process and git_blame_filename_extension of   *)
(* a build that is not a test build, called again and again in one run.     *)

\* `git show H:f.<pid>`: Args(GitShow(<pid>)) for describe_calling_process,
\* OtherProcess for guess_git_blame_filename_extension
ShowCmd(p) == <<T_git, T_show, <<"H", ":", "f", ".", Digits[p + 1]>>>>

\* the process table at the first call: every pid is there, a process is a
\* root or the child of the pid below it, the current process is `sh` and
\* the child of any other
QueryProc(p) ==
    [parent : IF p = my_pid THEN {None} \cup {Some(q) : q \in 1..(p - 1)}
              ELSE IF p = 1 THEN {None}
              ELSE {None, Some(p - 1)},
     start_time : IF p = my_pid THEN {ThisStartTime} ELSE {NearStartTime},
     cmd : IF p = my_pid THEN {ShellCmd} ELSE {ShowCmd(p), BlameCmd(p), ShellCmd}]

QueryTables == {t \in [Pids -> UNION {QueryProc(p) : p \in Pids}] :
                   \A p \in Pids : t[p] \in QueryProc(p)}

InitQuery ==
    /\ os \in QueryTables
    /\ info = <<>>
    /\ pc = "idle"
    /\ result = None
    /\ classified = <<>>
    /\ refresh_log = <<>>
    /\ argv = <<>>
    /\ out = NoOut
    /\ walk = NoWalk
    /\ query = "git_blame_filename_extension"
    /\ memo = NoMemo
    /\ fake = NotInUse

CallsMade == memo.calls["calling_process"] + memo.calls["git_blame_filename_extension"]

\* calling_process_cmdline(ProcInfo::new(), extract_args) is entered for q
StartSearch(q) ==
    /\ query' = q
    /\ memo' = [memo EXCEPT !.calls[q] = @ + 1, !.searches[q] = @ + 1]
    /\ info' = <<>>
    /\ classified' = <<>>
    /\ refresh_log' = <<>>
    /\ result' = None
    /\ pc' = "parent"

\* calling_process(): the first dereference of CACHED_CALLING_PROCESS runs
\* determine_calling_process, every later one borrows the value
CallingProcess ==
    /\ pc = "idle"
    /\ CallsMade < MaxCalls
    /\ IF memo.cached = <<>>
       THEN StartSearch("calling_process")
       ELSE /\ memo' = [memo EXCEPT !.calls["calling_process"] = @ + 1,
                                    !.answers["calling_process"] = @ \cup {memo.cached[1]}]
            /\ UNCHANGED <<query, info, classified, refresh_log, result, pc>>
    /\ UNCHANGED <<argv, out, os, walk, fake>>

\* git_blame_filename_extension(): calling_process_cmdline on a new ProcInfo
GitBlameFilenameExtension ==
    /\ pc = "idle"
    /\ CallsMade < MaxCalls
    /\ StartSearch("git_blame_filename_extension")
    /\ UNCHANGED <<argv, out, os, walk, fake>>

\* calling_process_cmdline returns: into the lazy static for calling_process,
\* to the caller for git_blame_filename_extension
QueryReturns ==
    /\ pc = "done"
    /\ memo' = [memo EXCEPT !.cached = IF query = "calling_process" THEN <<result>> ELSE @,
                            !.answers[query] = @ \cup {result}]
    /\ pc' = "idle"
    /\ UNCHANGED <<argv, out, os, info, result, classified, refresh_log, walk, query, fake>>

\* between two calls a process other than the current one exits
ProcessExits ==
    /\ pc = "idle"
    /\ \E p \in DOMAIN os \ {my_pid} :
          os' = [q \in DOMAIN os \ {p} |-> os[q]]
    /\ UNCHANGED <<argv, out, info, pc, result, classified, refresh_log, walk>>
    /\ UNCHANGED HarnessVars

NextQuery ==
    \/ CallingProcess
    \/ GitBlameFilenameExtension
    \/ ParentMissing
    \/ ParentTier
    \/ SiblingTier
    \/ WholeTreeTier
    \/ QueryReturns
    \/ ProcessExits

SpecQuery == InitQuery /\ [][NextQuery]_vars

----------------------------------------------------------------------------
(* FakeParentArgs: the per-thread registry of fake argvs of test builds.   *)

\* TlsState<Vec<String>>
TlsNone == [tag |-> "None", n |-> 0, args |-> <<>>]
TlsInvalid == [tag |-> "Invalid", n |-> 0, args |-> <<>>]
TlsOnce(v) == [tag |-> "Once", n |-> 0, args |-> <<v>>]
TlsScope(v) == [tag |-> "Scope", n |-> 0, args |-> <<v>>]
TlsWith(n, vs) == [tag |-> "With", n |-> n, args |-> vs]

\* the argvs a test supplies
FakeValues == {BlameCmd(1), BlameCmd(2), ShellCmd}

\* the closure of replace_with in get(): the state get() leaves
get_replace_with(old_value) ==
    IF old_value.tag = "Once" THEN TlsInvalid
    ELSE IF old_value.tag = "With" THEN TlsWith(old_value.n + 1, old_value.args)
    ELSE old_value

\* the match on old_value in get(): whether get() panics
get_panics(old_value) ==
    \/ old_value.tag = "Invalid"
    \/ old_value.tag = "With" /\ ~(old_value.n < Len(old_value.args))

\* the match on old_value in get(): what get() returns when it does not panic
get_returns(old_value) ==
    IF old_value.tag \in {"Once", "Scope"} THEN Some(old_value.args[1])
    ELSE IF old_value.tag = "With" THEN Some(old_value.args[old_value.n + 1])
    ELSE None

\* drop panicking on an over-used Once as well
drop_panics_on_invalid(old_value) ==
    \/ old_value.tag = "With" /\ old_value.n # Len(old_value.args)
    \/ old_value.tag \in {"Once", "None", "Invalid"}

\* the match on old_value in drop(): whether drop panics
drop_panics(old_value) ==
    \/ old_value.tag = "With" /\ old_value.n # Len(old_value.args)
    \/ old_value.tag \in {"Once", "None"}

InitFake ==
    /\ fake = NoFake
    /\ query = "git_blame_filename_extension"
    /\ memo = NotInUse
    /\ pc = "test"
    /\ os = <<>>
    /\ info = <<>>
    /\ result = None
    /\ classified = <<>>
    /\ refresh_log = <<>>
    /\ argv = <<>>
    /\ out = NoOut
    /\ walk = NoWalk

FakeUnchanged ==
    UNCHANGED <<argv, out, os, info, pc, result, classified, refresh_log, walk, query, memo>>

\* the thread runs test code: it is not unwinding and was not aborted
Running == pc = "test" /\ ~fake.panicking /\ ~fake.aborted

\* FakeParentArgs::new and ::with: the state is replaced, and the call panics
\* when the old state was not None or nothing was supplied; the guard is
\* there only when the call returns. A guard alive at a panicking creation
\* stays alive, with a state it did not set.
Create(initial, kind, values) ==
    LET panics == fake.state # TlsNone \/ values = <<>>
    IN  fake' = [fake EXCEPT
            !.state = initial,
            !.panicking = panics,
            !.guard = IF panics
                      THEN (IF @ = <<>> THEN @ ELSE <<[@[1] EXCEPT !.nested = TRUE]>>)
                      ELSE <<[kind |-> kind, values |-> values, gets |-> 0, nested |-> FALSE]>>,
            !.last = [op |-> kind, panic |-> panics, ret |-> None, guard |-> <<>>]]

FakeOnce ==
    /\ Running
    /\ \E v \in FakeValues : Create(TlsOnce(v), "once", <<v>>)
    /\ FakeUnchanged

FakeForScope ==
    /\ Running
    /\ \E v \in FakeValues : Create(TlsScope(v), "for_scope", <<v>>)
    /\ FakeUnchanged

FakeWith ==
    /\ Running
    /\ \E vs \in BoundedSeq(FakeValues, MaxWith) : Create(TlsWith(0, vs), "with", vs)
    /\ FakeUnchanged

\* FakeParentArgs::get()
FakeGet ==
    /\ Running
    /\ fake.guard # <<>> => fake.guard[1].gets <= MaxWith
    /\ LET counted == IF fake.guard = <<>> THEN <<>>
                      ELSE <<[fake.guard[1] EXCEPT !.gets = @ + 1]>>
       IN  fake' = [fake EXCEPT
               !.state = get_replace_with(fake.state),
               !.panicking = get_panics(fake.state),
               !.guard = counted,
               !.last = [op |-> "get", panic |-> get_panics(fake.state),
                         ret |-> IF get_panics(fake.state) THEN None
                                 ELSE get_returns(fake.state),
                         guard |-> counted]]
    /\ FakeUnchanged

\* Drop for FakeParentArgs, at the end of the guard's scope or while a panic
\* unwinds through it; a panic while panicking aborts
FakeDrop ==
    /\ pc = "test"
    /\ ~fake.aborted
    /\ fake.guard # <<>>
    /\ fake' = [fake EXCEPT
           !.state = TlsNone,
           !.panicking = @ \/ drop_panics(fake.state),
           !.aborted = fake.panicking /\ drop_panics(fake.state),
           !.guard = <<>>,
           !.last = [op |-> "drop", panic |-> drop_panics(fake.state),
                     ret |-> None, guard |-> fake.guard]]
    /\ FakeUnchanged

NextFake ==
    \/ FakeOnce
    \/ FakeForScope
    \/ FakeWith
    \/ FakeGet
    \/ FakeDrop

SpecFake == InitFake /\ [][NextFake]_vars

----------------------------------------------------------------------------
(* Properties of the classifiers, checked under SpecArgs.                  *)

Range(f) == {f[i] : i \in DOMAIN f}

\* the text of f after its final '.', all of f when it has none
AfterFinalDot(f) ==
    IF Positions(f, ".") = {} THEN f
    ELSE SubSeq(f, Maximum(Positions(f, ".")) + 1, Len(f))

\* <opts...> of a blame invocation: flags (tokens starting with '-' that take
\* no parameter, `--opt=value` included) and parameter-consuming options
\* each followed by its value
RECURSIVE WellFormedBlameOptions(_)
WellFormedBlameOptions(s) ==
    \/ s = <<>>
    \/ /\ Len(s) >= 2
       /\ s[1] \in git_blame_options_with_parameter
       /\ WellFormedBlameOptions(SubSeq(s, 3, Len(s)))
    \/ /\ Len(s) >= 1
       /\ starts_with(s[1], <<"-">>)
       /\ s[1] # T_dashdash
       /\ s[1] \notin git_blame_options_with_parameter
       /\ WellFormedBlameOptions(SubSeq(s, 2, Len(s)))

\* <git> blame <opts...> <file>, the file either a plain token or any token
\* behind a `--`
IsBlameInvocation(a) ==
    /\ Len(a) >= 3
    /\ a[1] \in {T_git, T_GitExe}
    /\ a[2] = T_blame
    /\ \/ /\ ~starts_with(a[Len(a)], <<"-">>)
          /\ WellFormedBlameOptions(SubSeq(a, 3, Len(a) - 1))
       \/ /\ Len(a) >= 4
          /\ a[Len(a) - 1] = T_dashdash
          /\ WellFormedBlameOptions(SubSeq(a, 3, Len(a) - 2))

\* C7: for every argv <git> blame <opts...> <file> the blame guesser returns
\* Matched(e), e the text of <file> after its final '.', or all of <file>
\* when it has no '.'.
C7_BlameExtension ==
    (out.op = "guess" /\ IsBlameInvocation(argv))
        => out.res = Args(AfterFinalDot(argv[Len(argv)]))

C7_Witness ==
    /\ out.op = "guess"
    /\ argv = <<T_GitExe, T_blame, T_date, T_README, T_a_rs>>
    /\ IsBlameInvocation(argv)
    /\ out.res = Args(<<"r", "s">>)

\* sel ends with the tokens of a after position i, in order and unchanged
KeepsAllAfter(a, sel, i) ==
    LET k == Len(a) - i
    IN  /\ Len(sel) >= k
        /\ SubSeq(sel, Len(sel) - k + 1, Len(sel)) = SubSeq(a, i + 1, Len(a))

\* C8 as stated: every token after the first `--` of the argv is in the
\* positional result, in order and unchanged.
C8_AfterFirstDashDash ==
    (out.op = "skip" /\ Positions(argv, T_dashdash) # {})
        => KeepsAllAfter(argv, out.selected, Minimum(Positions(argv, T_dashdash)))

\* C8 amended: every token after the first `--` of the argv is in the
\* positional result, in order and unchanged, when that `--` does not stand
\* behind a parameter-consuming option (which takes it as its value).
C8_DashDashTerminates ==
    (/\ out.op = "skip"
     /\ Positions(argv, T_dashdash) # {}
     /\ LET i == Minimum(Positions(argv, T_dashdash))
        IN  i = 1 \/ argv[i - 1] \notin out.skip)
        => KeepsAllAfter(argv, out.selected, Minimum(Positions(argv, T_dashdash)))

C8_Witness ==
    /\ out.op = "skip"
    /\ out.skip = git_blame_options_with_parameter
    /\ argv = <<T_a_rs, T_dashdash, T_date_eq, T_date>>
    /\ out.selected = <<T_a_rs, T_date_eq, T_date>>

\* the positions of a, from i on, that the option grammar reads as an option
\* or a positional argument: not the value of a parameter-consuming option,
\* and not at or behind a terminating `--`
RECURSIVE OptionPositions(_, _, _)
OptionPositions(a, S, i) ==
    IF i > Len(a) THEN {}
    ELSE IF a[i] = T_dashdash THEN {}
    ELSE IF a[i] \in S THEN {i} \cup OptionPositions(a, S, i + 2)
    ELSE {i} \cup OptionPositions(a, S, i + 1)

\* t is `opt=value` for a parameter-consuming option opt
IsEqJoined(t, S) ==
    \E o \in S : starts_with(o, <<"-">>) /\ starts_with(t, o \o <<"=">>)

\* C9: a parameter-consuming option followed by its value, space-joined or
\* `=`-joined, contributes no positional argument: neither the option token
\* nor its value token is kept.
C9_OptionValueDropped ==
    out.op = "skip" =>
        \A i \in OptionPositions(argv, out.skip, 1) :
            /\ argv[i] \in out.skip =>
                  /\ i \notin Range(out.idx)
                  /\ (i + 1) \notin Range(out.idx)
            /\ IsEqJoined(argv[i], out.skip) => i \notin Range(out.idx)

C9_Witness ==
    /\ out.op = "skip"
    /\ out.skip = git_blame_options_with_parameter
    /\ argv = <<T_date, T_README, T_date_eq, T_a_rs>>
    /\ out.idx = <<4>>

\* C10 as stated: an argv whose first token is not a git binary is
\* NotThisProcess (OtherProcess) for both classifiers.
C10_NonGitIsOtherProcess ==
    (out.op \in {"guess", "describe"} /\ Len(argv) >= 1 /\ ~is_git_binary(argv[1]))
        => out.res = OtherProcess

IsOtherGrepName(s) ==
    \E o \in {<<"r","g">>, T_ack, T_sift} : eq_ignore_ascii_case(o, s)

\* C10 amended: the blame guesser returns OtherProcess for every argv whose
\* first token is not a git binary and does not start with '-'; the
\* describer returns OtherProcess for every argv whose first token has no
\* file stem, or a file stem that is neither a git binary name nor rg, ack
\* or sift (ignoring case).
C10_OtherProcess ==
    Len(argv) >= 1 =>
        /\ (out.op = "guess" /\ ~is_git_binary(argv[1]) /\ ~starts_with(argv[1], <<"-">>))
              => out.res = OtherProcess
        /\ (/\ out.op = "describe"
            /\ \/ file_stem(argv[1]) = None
               \/ /\ ~is_git_binary(file_stem(argv[1])[1])
                  /\ ~IsOtherGrepName(file_stem(argv[1])[1]))
              => out.res = OtherProcess

C10_Witness ==
    /\ out.op = "describe"
    /\ argv = <<T_sh, T_blame, T_a_rs>>
    /\ out.res = OtherProcess


----------------------------------------------------------------------------
(* Properties of calling_process_cmdline, checked under Spec.              *)

\* the current process has a record, the record names a parent, and the
\* parent has a record
HasParent ==
    /\ my_pid \in DOMAIN os
    /\ os[my_pid].parent # None
    /\ os[my_pid].parent[1] \in DOMAIN os

ParentPid == os[my_pid].parent[1]
SiblingPid == my_pid - 1

TreeTierRan == Len(refresh_log) > 0 /\ refresh_log[Len(refresh_log)] = 0

\* C1: when the parent's record exists and the parent is a well-formed
\* `git blame f.<p>`, the search ends in the parent tier with Some(<p>):
\* only the current process and the parent were refreshed, only the parent
\* was classified, and neither later tier is ever entered.
C1_ParentMatchWins ==
    (HasParent /\ os[ParentPid].cmd = BlameCmd(ParentPid)) =>
        /\ pc \in {"parent", "done"}
        /\ pc = "done" =>
              /\ result = Some(ExtOf(ParentPid))
              /\ refresh_log = <<my_pid, ParentPid>>
              /\ classified = <<ParentPid>>
              /\ DOMAIN info = {my_pid, ParentPid}

\* the parent's match was returned although pid - 1, a child of the same
\* parent, is a match of its own
C1_Witness ==
    /\ pc = "done"
    /\ HasParent
    /\ ParentPid = 2
    /\ os[2].cmd = BlameCmd(2)
    /\ SiblingPid \in DOMAIN os
    /\ os[SiblingPid].cmd = BlameCmd(SiblingPid)
    /\ os[SiblingPid].parent = Some(2)
    /\ result = Some(ExtOf(2))

\* C2: when the parent's record exists and the parent is `git blame` without
\* a file (classified ArgError), the search ends in the parent tier with
\* None: neither later tier is entered, nothing but the current process and
\* the parent is refreshed, nothing but the parent is classified.
C2_ParentErrorIsFinal ==
    (HasParent /\ os[ParentPid].cmd = BrokenBlameCmd) =>
        /\ pc \in {"parent", "done"}
        /\ pc = "done" =>
              /\ result = None
              /\ refresh_log = <<my_pid, ParentPid>>
              /\ classified = <<ParentPid>>

\* None was returned for the broken parent although pid - 1 is a match
C2_Witness ==
    /\ pc = "done"
    /\ HasParent
    /\ os[ParentPid].cmd = BrokenBlameCmd
    /\ SiblingPid \in DOMAIN os
    /\ SiblingPid # ParentPid
    /\ os[SiblingPid].cmd = BlameCmd(SiblingPid)
    /\ os[SiblingPid].start_time = NearStartTime
    /\ result = None

\* C3: when the current process has no parent (no record of its own, no
\* parent id, or no record of the parent) and pid - 1 is a well-formed
\* `git blame f.<s>`, the result is Some(<s>).
C3_MissingParentFallsThrough ==
    (/\ pc = "done"
     /\ ~HasParent
     /\ SiblingPid \in DOMAIN os
     /\ os[SiblingPid].cmd = BlameCmd(SiblingPid)) =>
        result = Some(ExtOf(SiblingPid))

\* C4: when the parent's record exists and the parent is `sh` (classified
\* OtherProcess), and pid - 1 has a record and is a well-formed
\* `git blame f.<s>`, the search ends in the sibling tier with Some(<s>):
\* the whole table is never refreshed and the whole-tree tier never entered.
C4_SiblingMatchWins ==
    (/\ HasParent
     /\ os[ParentPid].cmd = ShellCmd
     /\ SiblingPid \in DOMAIN os
     /\ os[SiblingPid].cmd = BlameCmd(SiblingPid)) =>
        /\ pc # "tree"
        /\ 0 \notin Range(refresh_log)
        /\ pc = "done" =>
              /\ result = Some(ExtOf(SiblingPid))
              /\ refresh_log = <<my_pid, ParentPid, SiblingPid>>
              /\ classified = <<ParentPid, SiblingPid>>
              /\ DOMAIN info = {my_pid, ParentPid, SiblingPid}

\* the sibling's match was returned while a third process matches as well
C4_Witness ==
    /\ pc = "done"
    /\ HasParent
    /\ os[ParentPid].cmd = ShellCmd
    /\ SiblingPid \in DOMAIN os
    /\ os[SiblingPid].cmd = BlameCmd(SiblingPid)
    /\ \E p \in DOMAIN os \ {my_pid, SiblingPid} : os[p].cmd = BlameCmd(p)
    /\ result = Some(ExtOf(SiblingPid))

\* the pid d parent links above p, None when the chain ends before
RECURSIVE Ancestor(_, _, _)
Ancestor(t, p, d) ==
    IF d = 0 THEN Some(p)
    ELSE LET below == Ancestor(t, p, d - 1)
         IN  IF below = None \/ below[1] \notin DOMAIN t THEN None
             ELSE t[below[1]].parent

\* the numbers of hops, among the first 2 * MaxPid, after which the chain of
\* p is at q: with at most MaxPid pids, a pid the chain comes back to is
\* seen twice among them
Visits(t, p, q) == {d \in 1..(2 * MaxPid) : Ancestor(t, p, d) = Some(q)}

AncestorsOf(t, p) == {q \in Pids : Visits(t, p, q) # {}}

\* hops from p to q, the first time the chain of p is at q
FirstVisit(t, p, q) == Minimum(Visits(t, p, q))

\* hops from p to q, the last time the chain of p is at q within
\* MaxDistance hops: a chain that comes back to q does so every period hops
LastVisit(t, p, q) ==
    LET first == FirstVisit(t, p, q)
        again == Visits(t, p, q) \ {first}
    IN  IF again = {} THEN first
        ELSE LET period == Minimum(again) - first
             IN  first + period * ((MaxDistance - first) \div period)

\* hops from the candidate c to the first pid of its chain that is an
\* ancestor of the current process; {} when there is none
SharedAt(t, c) ==
    LET ancestors == AncestorsOf(t, my_pid)
    IN  {d \in 1..MaxPid :
            /\ Ancestor(t, c, d) # None
            /\ Ancestor(t, c, d)[1] \in ancestors}

\* total chain length, counting the hops from the current process to the
\* shared pid the first time the chain is there
HopChainLength(t, c) ==
    IF SharedAt(t, c) = {} THEN usize_MAX
    ELSE LET d == Minimum(SharedAt(t, c))
         IN  d + FirstVisit(t, my_pid, Ancestor(t, c, d)[1])

\* total chain length, counting the hops from the current process to the
\* shared pid the last time the chain is there
WalkChainLength(t, c) ==
    IF SharedAt(t, c) = {} THEN usize_MAX
    ELSE LET d == Minimum(SharedAt(t, c))
         IN  d + LastVisit(t, my_pid, Ancestor(t, c, d)[1])

\* the processes started less than 3 from the current one that are a
\* well-formed `git blame f.<p>`
MatchedCandidates ==
    {p \in DOMAIN os :
        /\ os[p].start_time - os[my_pid].start_time \in -2..2
        /\ os[p].cmd = BlameCmd(p)}

\* C5 as stated: the whole-tree tier returns the data of a candidate whose
\* hop count (candidate to first shared ancestor, plus current process to
\* that ancestor) is minimal, and None when there is no candidate.
C5_MinimalHops ==
    (pc = "done" /\ TreeTierRan) =>
        IF MatchedCandidates = {} THEN result = None
        ELSE \E c \in MatchedCandidates :
                /\ result = Some(ExtOf(c))
                /\ \A other \in MatchedCandidates :
                      HopChainLength(os, c) <= HopChainLength(os, other)

\* C5, amended: the whole-tree tier returns the data of a candidate whose
\* chain length is minimal, where the hops from the current process to the
\* shared ancestor are those of the last time its walk of at most 2000 hops
\* is at that ancestor (the hop count, unless the current process's chain
\* comes back to the ancestor), and a candidate without a shared ancestor
\* counts as farthest; None when there is no candidate.
C5_MinimalWalkLength ==
    (pc = "done" /\ TreeTierRan) =>
        IF MatchedCandidates = {} THEN result = None
        ELSE LET length == [c \in MatchedCandidates |-> WalkChainLength(os, c)]
             IN  \E c \in MatchedCandidates :
                    /\ result = Some(ExtOf(c))
                    /\ \A other \in MatchedCandidates : length[c] <= length[other]

\* of two candidates with a shared ancestor, neither of them the current
\* process, the nearer one was returned
C5_Witness ==
    /\ pc = "done"
    /\ TreeTierRan
    /\ \E c \in MatchedCandidates \ {my_pid}, other \in MatchedCandidates \ {my_pid} :
          /\ WalkChainLength(os, c) < WalkChainLength(os, other)
          /\ WalkChainLength(os, other) < usize_MAX
          /\ result = Some(ExtOf(c))

\* C15: when the parent is `sh` (OtherProcess) and pid - 1 is `git blame`
\* without a file (ArgError), the search goes on: it ends only after the
\* whole table was refreshed, with Some of a matched candidate of minimal
\* chain length, or None when no process in the window matches.
C15_SiblingErrorFallsThrough ==
    (/\ HasParent
     /\ os[ParentPid].cmd = ShellCmd
     /\ SiblingPid \in DOMAIN os
     /\ os[SiblingPid].cmd = BrokenBlameCmd
     /\ pc = "done") =>
            /\ TreeTierRan
            /\ refresh_log = <<my_pid, ParentPid, SiblingPid, 0>>
            /\ IF MatchedCandidates = {} THEN result = None
               ELSE LET length == [c \in MatchedCandidates |-> WalkChainLength(os, c)]
                    IN  \E c \in MatchedCandidates :
                           /\ result = Some(ExtOf(c))
                           /\ \A other \in MatchedCandidates : length[c] <= length[other]

\* behind a broken sibling the whole-tree tier found another process
C15_Witness ==
    /\ pc = "done"
    /\ HasParent
    /\ os[ParentPid].cmd = ShellCmd
    /\ SiblingPid \in DOMAIN os
    /\ SiblingPid # ParentPid
    /\ os[SiblingPid].cmd = BrokenBlameCmd
    /\ TreeTierRan
    /\ \E c \in MatchedCandidates \ {my_pid} : result = Some(ExtOf(c))

\* C16: the whole-tree tier classifies only processes other than the current
\* one, and what it returns never comes from the current process's argv.
C16_CurrentIsNoCandidate ==
    /\ my_pid \notin Range(classified)
    /\ (pc = "done" /\ TreeTierRan) => result # Some(ExtOf(my_pid))

\* the matched candidates with and without a pid shared with the ancestor
\* chain of the current process
RelatedCandidates == {c \in MatchedCandidates : SharedAt(os, c) # {}}
UnrelatedCandidates == MatchedCandidates \ RelatedCandidates

\* C17: a matched candidate in the window without a shared ancestor is kept:
\* when no matched candidate has a shared ancestor, the data of one without
\* is returned; when some matched candidate has a shared ancestor, the data
\* returned is that of a candidate with a shared ancestor.
C17_UnrelatedCandidateIsLast ==
    (pc = "done" /\ TreeTierRan) =>
        /\ (RelatedCandidates = {} /\ UnrelatedCandidates # {}) =>
              \E c \in UnrelatedCandidates : result = Some(ExtOf(c))
        /\ RelatedCandidates # {} =>
              \E c \in RelatedCandidates : result = Some(ExtOf(c))

\* a root process without a parent was the only match, and was returned
C17_Witness ==
    /\ pc = "done"
    /\ TreeTierRan
    /\ RelatedCandidates = {}
    /\ \E c \in UnrelatedCandidates :
          /\ os[c].parent = None
          /\ result = Some(ExtOf(c))

----------------------------------------------------------------------------
(* Properties of iter_parents, checked under SpecIter.                     *)

\* C6: over every table of parent links, cyclic ones included, the walk
\* returns; it never makes more than 2000 callbacks, and the k-th callback
\* is handed the distance k.
C6_WalkTerminates ==
    /\ [](walk.acc[1] <= MaxDistance /\ walk.acc[2] = walk.acc[1])
    /\ <>(pc = "iter_done")

\* a walk over a process that is its own parent returned after 2000 callbacks
C6_Witness ==
    /\ pc = "iter_done"
    /\ 1 \in DOMAIN os
    /\ os[1].parent = Some(1)
    /\ walk.acc = <<MaxDistance, MaxDistance>>


----------------------------------------------------------------------------
(* Properties of describe_calling_process, checked under SpecDescribe.     *)

\* the position of the subcommand: the first `grep` or `show` behind the command
SubcommandAt(a) ==
    Minimum({j \in 2..Len(a) : a[j] \in {T_grep, T_show}})

\* <git> ... sub <tokens>: the command is a git binary and sub is the first
\* `grep` or `show` behind it
IsGitSubcommand(a, sub) ==
    /\ Len(a) >= 2
    /\ a[1] \in {T_git, T_GitExe}
    /\ \E j \in 2..Len(a) : a[j] \in {T_grep, T_show}
    /\ a[SubcommandAt(a)] = sub

TokensAfterSubcommand(a) == SubSeq(a, SubcommandAt(a) + 1, Len(a))

\* the tokens of s in front of its first bare `--`, all of them without one
BeforeDashDash(s) ==
    {s[i] : i \in {k \in 1..Len(s) : \A m \in 1..k : s[m] # T_dashdash}}

\* the text of t in front of its first c, all of t when it has none
BeforeFirst(t, c) ==
    IF Positions(t, c) = {} THEN t ELSE SubSeq(t, 1, Minimum(Positions(t, c)) - 1)

\* the text of t behind its first c
AfterFirst(t, c) == SubSeq(t, Minimum(Positions(t, c)) + 1, Len(t))

IsLongOption(t) == Len(t) >= 2 /\ t[1] = "-" /\ t[2] = "-"
IsShortOptions(t) == Len(t) >= 1 /\ t[1] = "-" /\ ~IsLongOption(t)

\* C11: for every argv <git> ... grep <tokens> the describer returns
\* Matched(GitGrep(longs, shorts)): over the tokens in front of the first
\* bare `--`, longs is the set of the texts in front of the first '=' of the
\* tokens starting with `--`, and shorts the set of `-c` for every character
\* c behind the dash of the tokens starting with a single `-`; nothing else
\* contributes, and both sets may be empty.
C11_GitGrepOptionKeys ==
    (out.op = "describe" /\ IsGitSubcommand(argv, T_grep)) =>
        LET tokens == BeforeDashDash(TokensAfterSubcommand(argv))
            longs == {BeforeFirst(t, "=") : t \in {u \in tokens : IsLongOption(u)}}
            shorts == UNION {{<<"-", t[k]>> : k \in 2..Len(t)} :
                             t \in {u \in tokens : IsShortOptions(u)}}
        IN  out.res = Args(GitGrep(<<longs, shorts>>))

\* `--date=1.5 -ab a.rs` behind `git grep`: one long key, two short keys
C11_Witness ==
    /\ out.op = "describe"
    /\ argv = <<T_git, T_grep, T_date_eq, T_ab, T_a_rs>>
    /\ out.res = Args(GitGrep(<<{T_date}, {<<"-","a">>, <<"-","b">>}>>))

\* the last token skip_uninteresting_args keeps of the tokens behind `show`
LastPositional(a) ==
    last(skip_uninteresting_args(TokensAfterSubcommand(a), git_show_options_with_parameter))

\* C12 as stated: for every argv <git> ... show <tokens> the describer
\* returns ArgError when the last positional argument has no ':' or the part
\* behind its first ':' has no '.', and Matched(GitShow(ext)), ext the text
\* behind the final '.', only when that part has a '.'.
C12_ShowNeedsExtension ==
    (out.op = "describe" /\ IsGitSubcommand(argv, T_show) /\ LastPositional(argv) # None) =>
        LET last_arg == LastPositional(argv)[1]
        IN  IF Positions(last_arg, ":") = {} THEN out.res = ArgError
            ELSE IF Positions(AfterFirst(last_arg, ":"), ".") = {} THEN out.res = ArgError
            ELSE out.res = Args(GitShow(AfterFinalDot(AfterFirst(last_arg, ":"))))

\* C12 amended: for every argv <git> ... show <tokens> the describer returns
\* ArgError when there is no positional argument or the last one has no ':';
\* otherwise it returns Matched(GitShow(ext)), ext the text behind the final
\* '.' of the part behind the first ':', or all of that part when it has no
\* '.'.
C12_ShowExtension ==
    (out.op = "describe" /\ IsGitSubcommand(argv, T_show)) =>
        IF LastPositional(argv) = None THEN out.res = ArgError
        ELSE LET last_arg == LastPositional(argv)[1]
             IN  IF Positions(last_arg, ":") = {} THEN out.res = ArgError
                 ELSE out.res = Args(GitShow(AfterFinalDot(AfterFirst(last_arg, ":"))))

\* `git show H:M`: the path without a '.' is the extension
C12_Witness ==
    /\ out.op = "describe"
    /\ argv = <<T_GitExe, T_date, T_show, T_date, T_rev_Makefile>>
    /\ out.res = Args(GitShow(<<"M">>))


----------------------------------------------------------------------------
(* Properties of the public queries, checked under SpecQuery.              *)

\* C13: each public query computes its answer at most once per run: however
\* often it is called, the search ran at most once for it, and all its
\* calls returned the same value.
C13_ComputedOnce ==
    \A q \in Queries :
        /\ memo.searches[q] <= 1
        /\ Cardinality(memo.answers[q]) <= 1


----------------------------------------------------------------------------
(* Properties of FakeParentArgs, checked under SpecFake.                   *)

\* the guard the last get() or drop was made under, when it was created by
\* `kind` and no other guard was created during its lifetime
LastUnder(op, kinds) ==
    /\ fake.last.op = op
    /\ fake.last.guard # <<>>
    /\ fake.last.guard[1].kind \in kinds
    /\ ~fake.last.guard[1].nested

LastGuard == fake.last.guard[1]

\* under once(v) or with([v1..vn]) the k-th get() returns the k-th value
\* for k <= n and panics beyond
GetConsumesInOrder ==
    LastUnder("get", {"once", "with"}) =>
        IF LastGuard.gets <= Len(LastGuard.values)
        THEN ~fake.last.panic /\ fake.last.ret = Some(LastGuard.values[LastGuard.gets])
        ELSE fake.last.panic

\* under for_scope(v) every get() returns v and the drop never panics
ScopeIsReusable ==
    /\ LastUnder("get", {"for_scope"}) =>
          ~fake.last.panic /\ fake.last.ret = Some(LastGuard.values[1])
    /\ LastUnder("drop", {"for_scope"}) => ~fake.last.panic

\* after a drop that did not panic the registry is None, and a get() with
\* no guard alive returns None
DropResets ==
    /\ (fake.last.op = "drop" /\ ~fake.last.panic) => fake.state = TlsNone
    /\ (fake.last.op = "get" /\ fake.last.guard = <<>>) =>
          ~fake.last.panic /\ fake.last.ret = None

\* C14 as stated: values of once(v) and with([v1..vn]) are consumed in
\* order, a get() beyond the n-th panics, and the drop panics unless
\* exactly n get() calls were made; for_scope(v) returns v on every get()
\* and drops after any number of calls; after a drop without panic the
\* registry is None and get() returns None.
C14_ExactConsumption ==
    /\ GetConsumesInOrder
    /\ ScopeIsReusable
    /\ DropResets
    /\ LastUnder("drop", {"once", "with"}) =>
          (fake.last.panic <=> LastGuard.gets # Len(LastGuard.values))

\* C14 amended: as stated, except that the drop of a once(v) guard panics
\* only when get() was never called: after a second, panicking get() the
\* drop of the once(v) guard does not panic. The drop of a with([v1..vn])
\* guard panics unless exactly n get() calls were made.
C14_Consumption ==
    /\ GetConsumesInOrder
    /\ ScopeIsReusable
    /\ DropResets
    /\ LastUnder("drop", {"with"}) =>
          (fake.last.panic <=> LastGuard.gets # Len(LastGuard.values))
    /\ LastUnder("drop", {"once"}) =>
          (fake.last.panic <=> LastGuard.gets = 0)

\* a once(v) guard dropped without panic while the panic of its second
\* get() unwinds
C14_Witness ==
    /\ LastUnder("drop", {"once"})
    /\ LastGuard.gets = 2
    /\ fake.panicking
    /\ ~fake.last.panic
    /\ ~fake.aborted
    /\ fake.state = TlsNone

====
